---- MODULE Spec2Model ----
(***************************************************************************)
(* ObjectElementDisplay (rhf-mui-kit): the object-valued autocomplete       *)
(* field.  The module models                                                *)
(*   - the bound form value (react-hook-form's field.value),                *)
(*   - the newOptions React state ("DiscoveredOptions"), its lazy           *)
(*     initializer, the resynchronizing useEffect and the queued            *)
(*     functional updates applied by the next render,                       *)
(*   - the onChange handler handed to the autocomplete widget,              *)
(*   - the merged widget configuration of AutocompleteElementDisplay that   *)
(*     decides whether the widget accepts interactions at all.              *)
(*                                                                          *)
(* Values are records so that every comparison is between like kinds:       *)
(*   element  [tag, key, name, inp, tf]                                     *)
(*      tag = "item"  an object {id: key, name: name}; tf marks an object   *)
(*                    returned by transformValue                            *)
(*      tag = "str"   a raw string, inp is its text                         *)
(*      tag = "add"   {__isAddOption: true, inputValue: inp,                *)
(*                     ...stringToNewItem(inp)}                             *)
(*   value    [kind, one, arr, tf]                                          *)
(*      kind = "null" | "one" (scalar in .one) | "arr" (array in .arr);     *)
(*      tf marks an array returned by transformValue                        *)
(***************************************************************************)
EXTENDS Integers, Sequences, FiniteSets, TLC

\* ------------------------------------------------------------------ bounds
\* longest array held by the bound value
MaxLen == 2
\* longest newOptions (applied plus queued) the model follows
MaxNew == 2
\* component instances that call useOnMount
MaxInstances == 2
\* renders of one instance the model follows
MaxRenders == 3
\* runs of one instance's effect the model follows
MaxRuns == 2

\* longest list of options handed to filterOptions
MaxOptions == 2

\* ------------------------------------------------------------- value types
NoElem == [tag |-> "none", key |-> "", name |-> "", inp |-> "", tf |-> FALSE]

Item(k, n) == [tag |-> "item", key |-> k, name |-> n, inp |-> "", tf |-> FALSE]

Str(s) == [tag |-> "str", key |-> "", name |-> "", inp |-> s, tf |-> FALSE]

NullV == [kind |-> "null", one |-> NoElem, arr |-> <<>>, tf |-> FALSE]

One(e) == [kind |-> "one", one |-> e, arr |-> <<>>, tf |-> FALSE]

Arr(s) == [kind |-> "arr", one |-> NoElem, arr |-> s, tf |-> FALSE]

\* texts the user can type
Texts == {"x"}

\* the caller's converter, as in the tests: s => ({id: `new-${s}`, name: s})
stringToNewItem(s) ==
  Item(CASE s = "x" -> "new-x" [] s = "y" -> "new-y"
         [] s = "a" -> "new-a" [] s = "A" -> "new-A" [] s = "b" -> "new-b"
         [] s = "ab" -> "new-ab" [] s = "AB" -> "new-AB" [] s = "c" -> "new-c"
         [] s = "1" -> "new-1" [] OTHER -> "new-", s)

\* the "Add" option filterOptions builds for the input text
AddOption(s) == [stringToNewItem(s) EXCEPT !.tag = "add", !.inp = s]

\* the caller's hook, as in the tests: v => ({...v, transformed: true})
transformValue(v) ==
  IF v.kind = "one" THEN [v EXCEPT !.one.tf = TRUE] ELSE [v EXCEPT !.tf = TRUE]

\* the caller's key function, item => item ? item.id : 'null'
getItemKey(e) == IF e.tag \in {"item", "add"} THEN e.key ELSE "undefined"

\* the options prop
options == << Item("1", "Item 1") >>

\* Array.some(option => getItemKey(option) === k)
KeyIn(k, seq) == \E i \in 1..Len(seq) : getItemKey(seq[i]) = k

\* typeof value === "string"
IsString(e) == e.tag = "str"

\* !field.value : null, undefined and the empty string are falsy
Falsy(v) == v.kind = "null" \/ (v.kind = "one" /\ v.one.tag = "str" /\ v.one.inp = "")

\* Array.isArray(field.value) ? field.value : [field.value]
fieldValues(v) == IF v.kind = "arr" THEN v.arr ELSE << v.one >>

\* ------------------------------------------ Option Reconciliation Store
\* the seeding without its comparison against the configured options
newOptionsInitUnfiltered(v) ==
  IF Falsy(v) THEN << >>
  ELSE SelectSeq(fieldValues(v), LAMBDA e : ~IsString(e))

\* the lazy initializer of useState: newOptions after construction
newOptionsInit(v) ==
  IF Falsy(v) THEN << >>
  ELSE SelectSeq(fieldValues(v),
                 LAMBDA e : ~IsString(e) /\ ~KeyIn(getItemKey(e), options))

\* newOptions seeded at mount only: the effect never adds anything
newFieldOptionsMountOnly(v, newOpts) == << >>

\* the effect comparing against the options prop alone, as the initializer does
newFieldOptionsIgnoringNew(v, newOpts) ==
  IF Falsy(v) THEN << >>
  ELSE SelectSeq(fieldValues(v),
                 LAMBDA e : ~IsString(e) /\ ~KeyIn(getItemKey(e), options))

\* the body of the resynchronizing useEffect: the items it hands to
\* setNewOptions(prev => [...prev, ...newFieldOptions]); << >> when it
\* does not call setNewOptions
newFieldOptions(v, newOpts) ==
  IF Falsy(v) THEN << >>
  ELSE SelectSeq(fieldValues(v),
                 LAMBDA e : ~IsString(e)
                            /\ ~KeyIn(getItemKey(e), options \o newOpts))

\* the discovered options put before the configured ones
allOptionsNewFirst(newOpts) == newOpts \o options

\* allOptions = [...options, ...newOptions]
allOptions(newOpts) == options \o newOpts

\* ------------------------------------------- View-Mode Prop Adapter
\* a prop is "true", "false" or "unset" (undefined)
Tri == {"unset", "true", "false"}

\* lodash merge of one field: a defined source value replaces the
\* destination, an undefined one is skipped
mergeField(dest, src) == IF src # "unset" THEN src ELSE dest

\* a || b on props
orProp(a, b) == IF a = "true" THEN a ELSE b

\* the adapter forcing disableClearable only
autocompleteAdjustedPropsNotForced(vo, ap) ==
  [ readOnly         |-> ap.readOnly,
    disableClearable |-> mergeField(orProp(ap.disableClearable, vo),
                                    ap.disableClearable),
    disabled         |-> ap.disabled ]

\* the adapter without disabled: viewOnly
autocompleteAdjustedPropsEnabled(vo, ap) ==
  [ readOnly         |-> mergeField(vo, ap.readOnly),
    disableClearable |-> mergeField(orProp(ap.disableClearable, vo),
                                    ap.disableClearable),
    disabled         |-> ap.disabled ]

\* merge({readOnly: viewOnly, disableClearable: ap.disableClearable || viewOnly,
\*        disabled: viewOnly}, autocompleteProps, ...)
autocompleteAdjustedProps(vo, ap) ==
  [ readOnly         |-> mergeField(vo, ap.readOnly),
    disableClearable |-> mergeField(orProp(ap.disableClearable, vo),
                                    ap.disableClearable),
    disabled         |-> mergeField(vo, ap.disabled) ]

\* the widget delivers change events only when it is neither read-only
\* nor disabled
Interactive(vo, ap) ==
  LET m == autocompleteAdjustedProps(vo, ap)
  IN  m.readOnly # "true" /\ m.disabled # "true"

\* the caller's textFieldProps object: given is FALSE for undefined;
\* hideAdornment and hideUnderline are the sx entries the adapter writes
NoTextProps ==
  [ given |-> FALSE, disabled |-> "unset", variant |-> "unset",
    hideAdornment |-> FALSE, hideUnderline |-> FALSE ]

\* the view-only values merged under the caller's, as an earlier adapter did
getTextElementDisplayPropsCallerFirst(props, vo, du) ==
  IF vo = "true"
  THEN [ given |-> TRUE,
         disabled |-> props.disabled,
         variant |-> IF props.variant # "unset" THEN props.variant ELSE "standard",
         hideAdornment |-> props.hideAdornment,
         hideUnderline |-> props.hideUnderline ]
  ELSE [ props EXCEPT !.given = TRUE ]

\* getTextElementDisplayProps: merge(props, viewOnly ? {disabled: true,
\* variant: "standard", sx: {...}} : {}); the second argument's values
\* replace those of props
getTextElementDisplayProps(props, vo, du) ==
  IF vo = "true"
  THEN [ given |-> TRUE,
         disabled |-> "true",
         variant |-> "standard",
         hideAdornment |-> TRUE,
         hideUnderline |-> props.hideUnderline \/ du = "true" ]
  ELSE [ props EXCEPT !.given = TRUE ]

\* merge writes into its first argument: the caller's object, when there is
\* one, is the object returned
textFieldPropsAfter(props, vo, du) ==
  IF props.given THEN getTextElementDisplayProps(props, vo, du) ELSE props

\* ------------------------------------------- Selection Commit Pipeline
\* getInputValue: the text of a non-empty string or of an "Add" option;
\* "" stands for its null result (both are falsy where it is tested)
getInputValue(e) ==
  IF e.tag = "str" /\ e.inp # "" THEN e.inp
  ELSE IF e.tag = "add" THEN e.inp
  ELSE ""

\* applyTransform(val): the value handed to field.onChange
applyTransformWrite(hasTV, val) ==
  IF hasTV /\ val.kind # "null" THEN transformValue(val) ELSE val

\* applyTransform(val): the arguments transformValue is called with
applyTransformCalls(hasTV, val) ==
  IF hasTV /\ val.kind # "null" THEN << val >> ELSE << >>

\* addToNewOptions queuing nothing
addToNewOptionsSkipped(item, newOpts) == << >>

\* addToNewOptions without its itemExists test
addToNewOptionsUnchecked(item, newOpts) == << << item >> >>

\* addToNewOptions(item): the updaters it queues
addToNewOptions(item, newOpts) ==
  IF ~KeyIn(getItemKey(item), options \o newOpts) THEN << << item >> >> ELSE << >>

\* value.map(item => getInputValue(item) ? stringToNewItem(..) : item)
\* the array branch writing the payload as it came
resolveArrayKept(arr) == arr

resolveArray(arr) ==
  [ i \in 1..Len(arr) |->
      IF getInputValue(arr[i]) # "" THEN stringToNewItem(getInputValue(arr[i]))
      ELSE arr[i] ]

\* the filter without its test of the keys
newItemsAnyKey(newValues, newOpts) ==
  SelectSeq(newValues, LAMBDA e : ~IsString(e))

\* newValues.filter(item => typeof item !== "string"
\*                          && !allOptionsKeys.includes(getItemKey(item)))
newItems(newValues, newOpts) ==
  SelectSeq(newValues,
            LAMBDA e : ~IsString(e) /\ ~KeyIn(getItemKey(e), options \o newOpts))

\* the new item put first
prependNewItem(currentValues, newItem) == << newItem >> \o currentValues

\* const newValues = [...currentValues, newItem]
appendNewItem(currentValues, newItem) == currentValues \o << newItem >>

\* the reasons the widget gives for a change (AutocompleteChangeReason)
Reasons == {"selectOption", "clear", "createOption", "removeOption"}

\* the default branch writing null whenever the reason is a clear
onChangeDefaultByReason(c, value, reason) ==
  IF reason = "clear"
  THEN [ writes |-> << NullV >>, calls |-> << >>, adds |-> << >>, error |-> FALSE ]
  ELSE IF c.hasTV /\ value.kind # "null"
  THEN [ writes |-> << applyTransformWrite(c.hasTV, value) >>,
         calls  |-> applyTransformCalls(c.hasTV, value),
         adds   |-> << >>,
         error  |-> FALSE ]
  ELSE [ writes |-> << >>, calls |-> << >>, adds |-> << >>, error |-> FALSE ]

\* the default branch without its test for null
onChangeDefaultNoNullTest(c, value, reason) ==
  IF c.hasTV
  THEN [ writes |-> << transformValue(value) >>, calls |-> << value >>,
         adds |-> << >>, error |-> FALSE ]
  ELSE [ writes |-> << >>, calls |-> << >>, adds |-> << >>, error |-> FALSE ]

\* the branch after the freeSolo block:
\* if (transformValue && value !== null) applyTransform(value)
\* else autocompleteProps?.onChange?.(event, value, reason, details), which
\* is not defined whenever this handler is the one the widget received
onChangeDefault(c, value, reason) ==
  IF c.hasTV /\ value.kind # "null"
  THEN [ writes |-> << applyTransformWrite(c.hasTV, value) >>,
         calls  |-> applyTransformCalls(c.hasTV, value),
         adds   |-> << >>,
         error  |-> FALSE ]
  ELSE [ writes |-> << >>, calls |-> << >>, adds |-> << >>, error |-> FALSE ]

\* The handler.  value is the widget's payload, fv and newOpts are
\* field.value and newOptions as the rendering closure holds them.
\* Result: the values handed to field.onChange (writes), the arguments of
\* transformValue (calls), the updaters queued on newOptions (adds, each
\* the items one updater appends) and whether it threw (error).  Of its
\* parameters event, value, reason and details it reads value only.
onChange(c, value, reason, fv, newOpts) ==
  LET inputValue == IF value.kind = "one" THEN getInputValue(value.one) ELSE ""
      newItem    == stringToNewItem(inputValue)
      currentValues == IF fv.kind = "arr" THEN fv.arr ELSE << >>
      created    == IF c.multiple THEN Arr(appendNewItem(currentValues, newItem))
                    ELSE One(newItem)
      newValues  == resolveArray(value.arr)
      added      == newItems(newValues, newOpts)
  IN
  IF c.freeSolo /\ c.hasS2N /\ inputValue # ""
  THEN [ writes |-> << applyTransformWrite(c.hasTV, created) >>,
         calls  |-> applyTransformCalls(c.hasTV, created),
         adds   |-> addToNewOptions(newItem, newOpts),
         error  |-> FALSE ]
  ELSE IF c.freeSolo /\ c.hasS2N /\ value.kind = "arr" /\ c.multiple
  THEN [ writes |-> << applyTransformWrite(c.hasTV, Arr(newValues)) >>,
         calls  |-> applyTransformCalls(c.hasTV, Arr(newValues)),
         adds   |-> IF Len(added) > 0 THEN << added >> ELSE << >>,
         error  |-> FALSE ]
  ELSE onChangeDefault(c, value, reason)

\* the component's handler kept whatever the caller passes
widgetOnChangeOwn(c, value, reason, fv, newOpts) ==
  LET h == onChange(c, value, reason, fv, newOpts)
  IN [ writes |-> h.writes, calls |-> h.calls, adds |-> h.adds, error |-> h.error,
       caller |-> 0 ]

\* The onChange the widget receives from {..., onChange, ..., ...autocompleteProps}:
\* the caller's when the caller passes one, which is then the only handler
\* that runs (caller counts its calls); the component's otherwise
widgetOnChange(c, value, reason, fv, newOpts) ==
  IF c.callerOnChange
  THEN [ writes |-> << >>, calls |-> << >>, adds |-> << >>, error |-> FALSE,
         caller |-> 1 ]
  ELSE LET h == onChange(c, value, reason, fv, newOpts)
       IN [ writes |-> h.writes, calls |-> h.calls, adds |-> h.adds,
            error |-> h.error, caller |-> 0 ]

\* ---------------------------------------------------------- renderValue
\* getItemLabel as the callers give it, item ? item.name : 'None': the name
\* of an item, 'None' for null, and undefined for a string, which has no name
getItemLabel(e) ==
  IF e.tag \in {"item", "add"} THEN e.name
  ELSE IF e.tag = "none" THEN "None" ELSE "undefined"

\* what the widget's getItemProps({index}) returns besides the key, and
\* what getChipProps returns (given is FALSE when the prop is absent)
ItemProps == [ onDelete : BOOLEAN ]

ChipPropsResults == [ given : BOOLEAN, onDelete : BOOLEAN ]

\* every label taken from getItemLabel
chipLabelFromItem(v) == getItemLabel(v)

\* const label = typeof v === "string" ? v : getItemLabel(v)
chipLabel(v) == IF IsString(v) THEN v.inp ELSE getItemLabel(v)

\* <Chip {...valueSpecificProps} {...chipProps} label={label} />
chip(v, chipProps, valueSpecificProps) ==
  [ label    |-> chipLabel(v),
    onDelete |-> \/ chipProps.onDelete
                 \/ ~IsString(v) /\ valueSpecificProps.given
                                 /\ valueSpecificProps.onDelete ]

\* the single branch with getItemLabel called for every value that is no
\* string
singleValueUnguarded(v) ==
  IF v.kind = "one" /\ IsString(v.one)
  THEN [ text |-> v.one.inp, labelled |-> << >> ]
  ELSE [ text |-> getItemLabel(v.one), labelled |-> << v.one >> ]

\* typeof typedValue === "string" ? typedValue
\*   : typedValue ? getItemLabel(typedValue) : ""
\* with the arguments getItemLabel was called with
singleValue(v) ==
  IF v.kind = "one" /\ IsString(v.one)
  THEN [ text |-> v.one.inp, labelled |-> << >> ]
  ELSE IF v.kind = "one"
       THEN [ text |-> getItemLabel(v.one), labelled |-> << v.one >> ]
       ELSE [ text |-> "", labelled |-> << >> ]

\* renderValue(value, getItemProps, ownerState): the chips of an array, the
\* text of anything else, and the arguments getItemLabel was called with
renderValue(v, chipProps, valueSpecificProps) ==
  IF v.kind = "arr"
  THEN [ chips    |-> [ i \in 1..Len(v.arr) |->
                          chip(v.arr[i], chipProps, valueSpecificProps) ],
         text     |-> "",
         labelled |-> SelectSeq(v.arr, LAMBDA e : ~IsString(e)) ]
  ELSE [ chips    |-> << >>,
         text     |-> singleValue(v).text,
         labelled |-> singleValue(v).labelled ]

\* --------------------------------------------------------- useFormError
\* an entry of the errors object: absent, or a FieldError with or without
\* a message
NoEntry == [ present |-> FALSE, hasMessage |-> FALSE, message |-> "" ]

FieldErrorOf(m) == [ present |-> TRUE, hasMessage |-> TRUE, message |-> m ]

TypeOnly == [ present |-> TRUE, hasMessage |-> FALSE, message |-> "" ]

\* the errors object of a form with a field testField and a field
\* user.email: react-hook-form nests the entry of user.email under user
NoErrors == [ testField |-> NoEntry, user |-> [ present |-> FALSE, email |-> NoEntry ] ]

\* errors[name]: the own property of errors with that very name; the
\* object under user is an entry without a message
errorsAt(errors, name) ==
  IF name = "testField" THEN errors.testField
  ELSE IF name = "user" /\ errors.user.present THEN TypeOnly
  ELSE NoEntry

\* get(errors, name) of lodash: the path resolved level by level
errorsGet(errors, name) ==
  IF name = "user.email" /\ errors.user.present THEN errors.user.email
  ELSE errorsAt(errors, name)

\* { error: !!fieldError, helperText: fieldError?.message || '' }
formErrorResult(fieldError) ==
  [ error      |-> fieldError.present,
    helperText |-> IF fieldError.present /\ fieldError.hasMessage
                   THEN fieldError.message ELSE "" ]

\* useFormError(errors, name) with const fieldError = errors[name]
useFormError(errors, name) == formErrorResult(errorsAt(errors, name))

\* the useFormError that reads const fieldError = get(errors, name)
useFormErrorGet(errors, name) == formErrorResult(errorsGet(errors, name))

\* ----------------------------------------------------------- useOnMount
\* the effect calling the callback on every run
useOnMountEffectEveryRun(inst) ==
  [ inst EXCEPT !.calls = @ + 1, !.hasMounted = TRUE ]

\* the effect: if (!hasMounted.current) { callback(); hasMounted.current = true }
useOnMountEffect(inst) ==
  IF ~inst.hasMounted
  THEN [ inst EXCEPT !.calls = @ + 1, !.hasMounted = TRUE ]
  ELSE inst

\* the effect's cleanup: hasMounted.current = true
useOnMountCleanup(inst) == [ inst EXCEPT !.hasMounted = TRUE ]

\* -------------------------------------------------------- filterOptions
\* the texts filterOptions is followed on, and their characters
FilterTexts == {"", "1", "2", "3", "a", "A", "b", "c", "ab", "AB"}

Chars(s) ==
  CASE s = "" -> << >>
    [] s = "ab" -> << "a", "b" >>
    [] s = "AB" -> << "A", "B" >>
    [] OTHER -> << s >>

\* String.prototype.toLowerCase
toLowerCase(s) ==
  LET lower(ch) == CASE ch = "A" -> "a" [] ch = "B" -> "b" [] OTHER -> ch
      cs == Chars(s)
  IN CHOOSE t \in FilterTexts : Chars(t) = [ i \in 1..Len(cs) |-> lower(cs[i]) ]

\* String.prototype.includes
includes(s, sub) ==
  LET cs == Chars(s)
      cu == Chars(sub)
  IN \E i \in 0..(Len(cs) - Len(cu)) : SubSeq(cs, i + 1, i + Len(cu)) = cu

\* options.filter(option => key.includes(searchValue) || label.includes(searchValue))
filteredOptions(opts, searchValue) ==
  LET hit(option) ==
        \/ includes(toLowerCase(getItemKey(option)), searchValue)
        \/ includes(toLowerCase(getItemLabel(option)), searchValue)
  IN SelectSeq(opts, hit)

\* filteredOptions.some(option => String(getItemLabel(option)).toLowerCase() === searchValue)
hasExactMatch(filtered, searchValue) ==
  \E i \in 1..Len(filtered) : toLowerCase(getItemLabel(filtered[i])) = searchValue

\* filterOptions with the "Add" option put last
filterOptionsAddLast(opts, typed, freeSolo, hasS2N) ==
  IF typed = "" THEN opts
  ELSE LET searchValue == toLowerCase(typed)
           filtered == filteredOptions(opts, searchValue)
       IN IF freeSolo /\ hasS2N /\ ~hasExactMatch(filtered, searchValue)
          THEN filtered \o << AddOption(typed) >>
          ELSE filtered

\* autocompleteProps.filterOptions(options, {inputValue})
filterOptions(opts, typed, freeSolo, hasS2N) ==
  IF typed = "" THEN opts
  ELSE LET searchValue == toLowerCase(typed)
           filtered == filteredOptions(opts, searchValue)
       IN IF freeSolo /\ hasS2N /\ ~hasExactMatch(filtered, searchValue)
          THEN << AddOption(typed) >> \o filtered
          ELSE filtered

\* ---------------------------------------------------------------- state
VARIABLES
  cfg,         \* the props: multiple, freeSolo, hasS2N (stringToNewItem given),
               \* hasTV (transformValue given), viewOnly, ap (the caller's
               \* autocompleteProps)
  fieldValue,  \* Bound Value: the form state's value of the field
  rValue,      \* field.value as the last render read it
  newOptions,  \* the newOptions state as the last render read it
  pending,     \* updaters queued by setNewOptions, applied by the next render
  effectDue,   \* the last render's useEffect has not run yet
  inputValue,  \* the text in the widget's input
  last,        \* the last event (init, setValue, commit): its payload, for a
               \* commit the field.value the handler read (prev), the values
               \* handed to field.onChange, the arguments of transformValue,
               \* whether the handler threw, and the items the useEffect has
               \* queued since
  adapter,     \* an AutocompleteElementDisplay on its own: viewOnly (vo),
               \* disableUnderline (du), the caller's autocompleteProps (ap),
               \* the caller's textFieldProps object as it is now (tf) and as
               \* the caller wrote it (written), and what the last render
               \* handed to AutocompleteElement (outAp, outTf)
  formError,   \* a useFormError call: errors, name and the result
  mounts,      \* the component instances that call useOnMount: for each its
               \* phase, its hasMounted ref, the calls of its callback, its
               \* renders and the runs of its effect
  filterCall   \* a call of filterOptions: the options, the inputValue, the
               \* freeSolo and stringToNewItem props and the list returned

vars == << cfg, fieldValue, rValue, newOptions, pending, effectDue, inputValue, last,
           adapter, formError, mounts, filterCall >>

\* the caller's autocompleteProps as far as the adapter reads them
NoCallerProps ==
  [ readOnly |-> "unset", disabled |-> "unset", disableClearable |-> "unset" ]

\* a caller who sets readOnly or disabled to false
CallerProps ==
  [ readOnly : {"unset", "false"}, disabled : {"unset", "false"},
    disableClearable : {"unset"} ]

Modes ==
  { m \in [ multiple : BOOLEAN, freeSolo : BOOLEAN, hasS2N : BOOLEAN,
            hasTV : BOOLEAN ] : m.hasS2N => m.freeSolo }

WithView(m, vo, ap) ==
  [ multiple |-> m.multiple, freeSolo |-> m.freeSolo, hasS2N |-> m.hasS2N,
    hasTV |-> m.hasTV, viewOnly |-> vo, ap |-> ap, callerOnChange |-> FALSE ]

\* the props of an instance whose caller passes no readOnly or disabled
Configs == { WithView(m, vo, NoCallerProps) : m \in Modes, vo \in {"true", "false"} }

\* the props of a view-only instance whose caller may pass them as false
OverrideConfigs == { WithView(m, "true", ap) : m \in Modes, ap \in CallerProps }

\* elements an initial value or a programmatic setValue may carry: items
\* outside the options prop (two objects with one key among them), an
\* item of the options prop and a raw string
ExtElems == { Item("9", "Not In List"), Item("9", "Renamed"), Item("1", "Item 1"),
              Str("x") }

\* the values given from outside: null, one element, or an array of none,
\* one or two elements
ExtValues == {NullV} \cup { One(e) : e \in ExtElems }
               \cup { Arr(<< >>) } \cup { Arr(<< e >>) : e \in ExtElems }
               \cup { Arr(<< e, f >>) : e \in ExtElems, f \in ExtElems }

\* form values a field of the given mode is given from outside
ExtValuesFor(c) ==
  IF c.multiple THEN { v \in ExtValues : v.kind # "one" }
  ELSE { v \in ExtValues : v.kind # "arr" }

RECURSIVE Flatten(_)
Flatten(q) == IF Len(q) = 0 THEN << >> ELSE Head(q) \o Flatten(Tail(q))

NoEvent == [ op |-> "init", payload |-> NullV, prev |-> NullV, writes |-> << >>,
             calls |-> << >>, error |-> FALSE, synced |-> << >>,
             opts |-> << >>, adds |-> << >>, steps |-> 0, caller |-> 0,
             reason |-> "" ]

\* no AutocompleteElementDisplay of its own is followed
NoAdapter ==
  [ vo |-> "unset", du |-> "unset",
    ap |-> [readOnly |-> "unset", disabled |-> "unset", disableClearable |-> "unset"],
    tf |-> NoTextProps, written |-> NoTextProps,
    outAp |-> [readOnly |-> "unset", disabled |-> "unset", disableClearable |-> "unset"],
    outTf |-> NoTextProps ]

\* no useFormError call is followed
NoFormError == [ errors |-> NoErrors, name |-> "", error |-> FALSE, helperText |-> "" ]

\* an instance before its first render
NewInstance ==
  [ phase |-> "new", hasMounted |-> FALSE, calls |-> 0, renders |-> 0, runs |-> 0 ]

\* no instance calling useOnMount has rendered, no filterOptions call is followed
NoMounts == [ i \in 1..MaxInstances |-> NewInstance ]

NoFilterCall ==
  [ options |-> << >>, input |-> "", freeSolo |-> FALSE, hasS2N |-> FALSE,
    called |-> FALSE, result |-> << >> ]

HooksIdle == mounts = NoMounts /\ filterCall = NoFilterCall

InitWith(configs) ==
  /\ adapter = NoAdapter
  /\ formError = NoFormError
  /\ HooksIdle
  /\ cfg \in configs
  /\ fieldValue \in ExtValuesFor(cfg)
  /\ rValue = fieldValue
  /\ newOptions = newOptionsInit(fieldValue)
  /\ pending = << >>
  /\ effectDue = TRUE
  /\ inputValue = ""
  /\ last = NoEvent

Init == InitWith(Configs)

InitOverride == InitWith(OverrideConfigs)

\* every render and effect the previous event caused has run
Quiescent == ~effectDue /\ pending = << >> /\ rValue = fieldValue

\* A programmatic setValue from outside the component.  useController
\* subscribes the component to the field, so the write re-renders it with
\* the new field.value and the render's effects are due.
ExternalWrite(v) ==
  /\ Quiescent
  /\ v # fieldValue
  /\ Len(newOptions) + Len(newFieldOptions(v, newOptions)) <= MaxNew
  /\ fieldValue' = v
  /\ rValue' = v
  /\ effectDue' = TRUE
  /\ last' = [ NoEvent EXCEPT !.op = "setValue", !.payload = v, !.writes = << v >> ]
  /\ UNCHANGED << cfg, newOptions, pending, inputValue, adapter, formError, mounts, filterCall >>

\* React renders the component: the closures read the current field value
\* and the newOptions state with every queued updater applied
Render ==
  /\ ~effectDue
  /\ (pending # << >> \/ rValue # fieldValue)
  /\ rValue' = fieldValue
  /\ newOptions' = newOptions \o Flatten(pending)
  /\ pending' = << >>
  /\ effectDue' = TRUE
  /\ UNCHANGED << cfg, fieldValue, inputValue, last, adapter, formError, mounts, filterCall >>

\* the useEffect on [field.value, options, newOptions, getItemKey]
Resync ==
  /\ effectDue
  /\ LET new == newFieldOptions(rValue, newOptions)
     IN  /\ Len(newOptions) + Len(new) <= MaxNew
         /\ pending' = IF Len(new) > 0 THEN Append(pending, new) ELSE pending
         /\ last' = [ last EXCEPT !.synced = @ \o new,
                                   !.steps = IF Len(new) > 0 THEN @ + 1 ELSE @ ]
  /\ effectDue' = FALSE
  /\ UNCHANGED << cfg, fieldValue, rValue, newOptions, inputValue, adapter, formError, mounts, filterCall >>

\* the user types into the widget's input
InputChange(t) ==
  /\ Quiescent
  /\ Interactive(cfg.viewOnly, cfg.ap)
  /\ t # inputValue
  /\ inputValue' = t
  /\ UNCHANGED << cfg, fieldValue, rValue, newOptions, pending, effectDue, last,
                  adapter, formError, mounts, filterCall >>

Range(f) == { f[i] : i \in DOMAIN f }

RemoveAt(a, i) == [ j \in 1..(Len(a) - 1) |-> IF j < i THEN a[j] ELSE a[j + 1] ]

\* what the user can pick or enter: an option of the list, and with
\* freeSolo the typed text (Enter) or its "Add" option
Choices ==
  Range(allOptions(newOptions))
    \cup (IF cfg.freeSolo /\ inputValue # "" THEN {Str(inputValue)} ELSE {})
    \cup (IF cfg.freeSolo /\ cfg.hasS2N /\ inputValue # ""
          THEN {AddOption(inputValue)} ELSE {})

\* the payloads the widget delivers to onChange.  Single-select: null or
\* the choice.  Multi-select: the displayed array with the choice appended
\* or one element removed, or the empty array; the typed text alone is
\* delivered as well (ObjectElementDisplay.test.tsx simulateFreeSoloCreate).
Payloads ==
  LET cur == IF rValue.kind = "arr" THEN rValue.arr ELSE << >>
  IN
  IF ~cfg.multiple THEN {NullV} \cup { One(e) : e \in Choices }
  ELSE { Arr(cur \o << e >>) : e \in Choices }
         \cup { Arr(RemoveAt(cur, i)) : i \in 1..Len(cur) }
         \cup { Arr(<< >>) }
         \cup (IF cfg.freeSolo /\ cfg.hasS2N
               THEN { One(e) : e \in Choices \ Range(allOptions(newOptions)) }
               ELSE {})

\* A change event of the widget.  AutocompleteElement hands the payload to
\* field.onChange and then calls the onChange of autocompleteProps, which
\* is the component's handler; the last value handed to field.onChange
\* is the field's value when the event is over.
CommitWith(p, reason) ==
  /\ Quiescent
  /\ Interactive(cfg.viewOnly, cfg.ap)
  /\ LET h == widgetOnChange(cfg, p, reason, rValue, newOptions)
         w == << p >> \o h.writes
     IN  /\ w[Len(w)].kind = "arr" => Len(w[Len(w)].arr) <= MaxLen
         /\ fieldValue' = w[Len(w)]
         /\ pending' = pending \o h.adds
         /\ Len(newOptions) + Len(Flatten(h.adds)) <= MaxNew
         /\ last' = [ op |-> "commit", payload |-> p, prev |-> rValue, writes |-> w,
                      calls |-> h.calls, error |-> h.error, synced |-> << >>,
                      opts |-> newOptions, adds |-> Flatten(h.adds), steps |-> 0,
                      caller |-> h.caller, reason |-> reason ]
  /\ UNCHANGED << cfg, rValue, newOptions, effectDue, inputValue, adapter, formError, mounts, filterCall >>

\* a change event as the tests deliver it (simulateChange): the reason is
\* always 'createOption'
Commit(p) == CommitWith(p, "createOption")

Next ==
  \/ \E v \in ExtValuesFor(cfg) : ExternalWrite(v)
  \/ Render
  \/ Resync
  \/ \E t \in Texts \cup {""} : InputChange(t)
  \/ \E p \in Payloads : Commit(p)

Spec == Init /\ [][Next]_vars

\* view-only instances whose caller overrides readOnly and disabled
SpecOverride == InitOverride /\ [][Next]_vars

\* the editable instances whose caller passes autocompleteProps.onChange
CallerOnChangeConfigs ==
  { [ c EXCEPT !.callerOnChange = TRUE ] : c \in { d \in Configs : d.viewOnly = "false" } }

InitCallerOnChange == InitWith(CallerOnChangeConfigs)

SpecCallerOnChange == InitCallerOnChange /\ [][Next]_vars

TypeOK ==
  /\ cfg \in Configs \cup OverrideConfigs \cup CallerOnChangeConfigs
  /\ fieldValue.kind \in {"null", "one", "arr"}
  /\ effectDue \in BOOLEAN

\* ------------------------------- AutocompleteElementDisplay on its own
\* what a caller can pass as autocompleteProps and as textFieldProps
CallerAutocompleteProps == [ readOnly : Tri, disabled : Tri, disableClearable : Tri ]

Variants == {"unset", "outlined", "standard"}

CallerTextFieldProps ==
  {NoTextProps} \cup
  [ given : {TRUE}, disabled : Tri, variant : Variants,
    hideAdornment : {FALSE}, hideUnderline : {FALSE} ]

\* a render with viewOnly vo and disableUnderline du of the caller's
\* autocompleteProps ap and textFieldProps object tf: both useMemo bodies
AdapterRendered(vo, du, ap, tf, written) ==
  [ vo |-> vo, du |-> du, ap |-> ap,
    tf |-> textFieldPropsAfter(tf, vo, du),
    written |-> written,
    outAp |-> autocompleteAdjustedProps(vo, ap),
    outTf |-> getTextElementDisplayProps(tf, vo, du) ]

\* the component variables of a model that follows the adapter only
ComponentIdle ==
  /\ cfg = WithView([multiple |-> FALSE, freeSolo |-> FALSE, hasS2N |-> FALSE,
                     hasTV |-> FALSE], "false", NoCallerProps)
  /\ fieldValue = NullV /\ rValue = NullV
  /\ newOptions = << >> /\ pending = << >>
  /\ effectDue = FALSE /\ inputValue = "" /\ last = NoEvent

InitAdapter ==
  /\ ComponentIdle
  /\ formError = NoFormError
  /\ HooksIdle
  /\ \E vo \in Tri, du \in {"false", "true"}, ap \in CallerAutocompleteProps,
        tf \in CallerTextFieldProps :
        adapter = AdapterRendered(vo, du, ap, tf, tf)

\* the parent renders again with the same props objects and another
\* viewOnly or disableUnderline
AdapterRerender(vo, du) ==
  /\ << vo, du >> # << adapter.vo, adapter.du >>
  /\ adapter' = AdapterRendered(vo, du, adapter.ap, adapter.tf, adapter.written)
  /\ UNCHANGED << cfg, fieldValue, rValue, newOptions, pending, effectDue,
                  inputValue, last, formError, mounts, filterCall >>

\* the parent renders again with new props objects
AdapterNewProps(ap, tf) ==
  /\ adapter' = AdapterRendered(adapter.vo, adapter.du, ap, tf, tf)
  /\ adapter' # adapter
  /\ UNCHANGED << cfg, fieldValue, rValue, newOptions, pending, effectDue,
                  inputValue, last, formError, mounts, filterCall >>

NextAdapter ==
  \/ \E vo \in Tri, du \in {"false", "true"} : AdapterRerender(vo, du)
  \/ \E ap \in CallerAutocompleteProps, tf \in CallerTextFieldProps :
        AdapterNewProps(ap, tf)

SpecAdapter == InitAdapter /\ [][NextAdapter]_vars

\* ------------------------------------------------ useFormError on its own
Messages == {"This field is required", "Invalid email format"}

Entries == {NoEntry, TypeOnly, FieldErrorOf("")} \cup { FieldErrorOf(m) : m \in Messages }

ErrorObjects ==
  { [ testField |-> t, user |-> u ] :
      t \in Entries,
      u \in {[ present |-> FALSE, email |-> NoEntry ]} \cup
            { [ present |-> TRUE, email |-> e ] : e \in Entries } }

FieldNames == {"testField", "user", "user.email", "other"}

\* a component calls useFormError(errors, name) while it renders
FormErrorCalled(errors, name) ==
  [ errors |-> errors, name |-> name,
    error |-> useFormError(errors, name).error,
    helperText |-> useFormError(errors, name).helperText ]

InitFormError ==
  /\ ComponentIdle
  /\ adapter = NoAdapter
  /\ HooksIdle
  /\ \E n \in FieldNames : formError = FormErrorCalled(NoErrors, n)

\* validation changes the errors object and the component renders again
ErrorsChange(errors) ==
  /\ errors # formError.errors
  /\ formError' = FormErrorCalled(errors, formError.name)
  /\ UNCHANGED << cfg, fieldValue, rValue, newOptions, pending, effectDue,
                  inputValue, last, adapter, mounts, filterCall >>

\* the component is given another field name
NameChange(name) ==
  /\ name # formError.name
  /\ formError' = FormErrorCalled(formError.errors, name)
  /\ UNCHANGED << cfg, fieldValue, rValue, newOptions, pending, effectDue,
                  inputValue, last, adapter, mounts, filterCall >>

NextFormError ==
  \/ \E e \in ErrorObjects : ErrorsChange(e)
  \/ \E n \in FieldNames : NameChange(n)

SpecFormError == InitFormError /\ [][NextFormError]_vars

\* ------------------------------------- change events with every reason
\* the editable instances
EditableConfigs == { c \in Configs : c.viewOnly = "false" }

\* an instance mounted with no value
InitReason == InitWith(EditableConfigs) /\ fieldValue \in {NullV, Arr(<< >>)}

\* a change event with any of the widget's reasons, on an instance whose
\* value nothing else writes
NextReason ==
  \/ Render
  \/ Resync
  \/ \E t \in Texts \cup {""} : InputChange(t)
  \/ \E p \in Payloads, reason \in Reasons : CommitWith(p, reason)

SpecReason == InitReason /\ [][NextReason]_vars

\* React runs every render that is due and every effect of a render
SpecLive == Init /\ [][Next]_vars /\ WF_vars(Render) /\ WF_vars(Resync)

\* ------------------------------ handlers run again before the re-render
\* the editable instances with freeSolo and stringToNewItem
BatchedConfigs ==
  { c \in Configs : c.freeSolo /\ c.hasS2N /\ c.viewOnly = "false" }

InitBatched == InitWith(BatchedConfigs)

\* A further change event handled before React has rendered the updates of
\* the previous one: the handler is the closure of the last render, with
\* its field.value and its newOptions, and its updaters queue behind those
\* already queued.
CommitStale(p) ==
  /\ ~effectDue
  /\ ~Quiescent
  /\ Interactive(cfg.viewOnly, cfg.ap)
  /\ LET h == widgetOnChange(cfg, p, "createOption", rValue, newOptions)
         w == << p >> \o h.writes
     IN  /\ w[Len(w)].kind = "arr" => Len(w[Len(w)].arr) <= MaxLen
         /\ fieldValue' = w[Len(w)]
         /\ pending' = pending \o h.adds
         /\ Len(newOptions) + Len(Flatten(pending \o h.adds)) <= MaxNew
         /\ last' = [ op |-> "batched", payload |-> p, prev |-> rValue, writes |-> w,
                      calls |-> h.calls, error |-> h.error, synced |-> << >>,
                      opts |-> newOptions \o Flatten(pending),
                      adds |-> Flatten(h.adds), steps |-> 0, caller |-> h.caller,
                      reason |-> "createOption" ]
  /\ UNCHANGED << cfg, rValue, newOptions, effectDue, inputValue, adapter, formError,
                  mounts, filterCall >>

NextBatched ==
  \/ Next
  \/ \E p \in Payloads : CommitStale(p)

SpecBatched == InitBatched /\ [][NextBatched]_vars

\* -------------------------------------------------- useOnMount on its own
InitOnMount ==
  /\ ComponentIdle
  /\ adapter = NoAdapter
  /\ formError = NoFormError
  /\ HooksIdle

OnMountFrame ==
  UNCHANGED << cfg, fieldValue, rValue, newOptions, pending, effectDue,
               inputValue, last, adapter, formError, filterCall >>

\* the first render of instance i, with useRef(false), and its effect
Mount(i) ==
  /\ mounts[i].phase = "new"
  /\ mounts' = [ mounts EXCEPT ![i] =
                   useOnMountEffect([ @ EXCEPT !.phase = "mounted",
                                               !.renders = 1, !.runs = 1 ]) ]
  /\ OnMountFrame

\* a later render of instance i: the dependency list [] keeps the effect
\* from running
Rerender(i) ==
  /\ mounts[i].phase = "mounted"
  /\ mounts[i].renders < MaxRenders
  /\ mounts' = [ mounts EXCEPT ![i].renders = @ + 1 ]
  /\ OnMountFrame

\* React cleans the effect of instance i up to run it again (Strict Mode,
\* Fast Refresh): the instance and its ref stay
EffectCleanup(i) ==
  /\ mounts[i].phase = "mounted"
  /\ mounts[i].runs < MaxRuns
  /\ mounts' = [ mounts EXCEPT ![i] = useOnMountCleanup([ @ EXCEPT !.phase = "cleaned" ]) ]
  /\ OnMountFrame

EffectRerun(i) ==
  /\ mounts[i].phase = "cleaned"
  /\ mounts' = [ mounts EXCEPT ![i] =
                   useOnMountEffect([ @ EXCEPT !.phase = "mounted", !.runs = @ + 1 ]) ]
  /\ OnMountFrame

\* instance i is unmounted: its cleanup runs
Unmount(i) ==
  /\ mounts[i].phase = "mounted"
  /\ mounts' = [ mounts EXCEPT ![i] = useOnMountCleanup([ @ EXCEPT !.phase = "gone" ]) ]
  /\ OnMountFrame

NextOnMount ==
  \/ \E i \in 1..MaxInstances : Mount(i)
  \/ \E i \in 1..MaxInstances : Rerender(i)
  \/ \E i \in 1..MaxInstances : EffectCleanup(i)
  \/ \E i \in 1..MaxInstances : EffectRerun(i)
  \/ \E i \in 1..MaxInstances : Unmount(i)

SpecOnMount == InitOnMount /\ [][NextOnMount]_vars

\* ----------------------------------------------- filterOptions on its own
\* the options the widget hands to filterOptions
FilterItems == { Item("1", "ab"), Item("ab", "c"), Item("2", "AB"), Item("3", "A") }

OptionLists == UNION { [ 1..n -> FilterItems ] : n \in 0..MaxOptions }

\* the texts the user types
InputTexts == {"", "a", "A", "b", "c", "ab", "AB", "1"}

\* the arguments and props of the call that is followed
InitFilter ==
  /\ ComponentIdle
  /\ adapter = NoAdapter
  /\ formError = NoFormError
  /\ mounts = NoMounts
  /\ \E opts \in OptionLists, typed \in InputTexts, fs \in BOOLEAN, s2n \in BOOLEAN :
       filterCall = [ NoFilterCall EXCEPT !.options = opts, !.input = typed,
                                          !.freeSolo = fs, !.hasS2N = s2n ]

\* the widget asks for the options to show for the typed text
FilterOptionsCall ==
  /\ ~filterCall.called
  /\ filterCall' = [ filterCall EXCEPT
                       !.called = TRUE,
                       !.result = filterOptions(filterCall.options, filterCall.input,
                                                filterCall.freeSolo, filterCall.hasS2N) ]
  /\ UNCHANGED << cfg, fieldValue, rValue, newOptions, pending, effectDue,
                  inputValue, last, adapter, formError, mounts >>

NextFilter == FilterOptionsCall

SpecFilter == InitFilter /\ [][NextFilter]_vars

\* ================================================================ claims

\* keys of the Option Set, in order
OptionSet == allOptions(newOptions)

\* the elements of the Option Set that carry key k
CountKey(k) == Cardinality({ i \in 1..Len(OptionSet) : getItemKey(OptionSet[i]) = k })

\* C1: in every reachable state no two elements of the Option Set
\* (ConfiguredOptions followed by DiscoveredOptions) have the same key.
C1_NoDuplicateKeys ==
  \A i, j \in 1..Len(OptionSet) :
    i # j => getItemKey(OptionSet[i]) # getItemKey(OptionSet[j])

\* the non-string elements of a value
NonStrings(v) ==
  IF v.kind = "null" THEN {}
  ELSE { e \in Range(fieldValues(v)) : e.tag # "str" }

\* C2: once the resynchronization that follows a write from outside has
\* run (and its update is rendered), every non-string element of Bound
\* Value has its key in the Option Set; in every mode.
C2_ResyncCoversBoundValue ==
  (last.op = "setValue" /\ Quiescent) =>
     \A e \in NonStrings(fieldValue) : KeyIn(getItemKey(e), OptionSet)

\* a view-only field without freeSolo was given, by setValue, an item whose
\* key no option had, and the effect has appended it
C2_Witness ==
  /\ cfg.viewOnly = "true" /\ ~cfg.freeSolo
  /\ last.op = "setValue" /\ Quiescent
  /\ \E e \in NonStrings(fieldValue) :
        /\ e \in Range(last.synced)
        /\ e \in Range(newOptions)

\* the payload of the last commit is a typed, non-empty raw text
TypedText(p) == IF p.kind = "one" /\ p.one.tag = "str" THEN p.one.inp ELSE ""

\* C3 as stated: with freeSolo, stringToNewItem and single-select, a commit
\* of the non-empty raw text s sets Bound Value to stringToNewItem(s), and
\* once rendered the Option Set has exactly one element with that key.
C3_Original ==
  ( /\ last.op = "commit" /\ ~cfg.multiple /\ cfg.freeSolo /\ cfg.hasS2N
    /\ TypedText(last.payload) # "" )
  => LET item == stringToNewItem(TypedText(last.payload))
     IN  /\ fieldValue = One(item)
         /\ Quiescent => CountKey(getItemKey(item)) = 1

\* C3 amended: Bound Value is stringToNewItem(s), or what transformValue
\* returns for it when that hook is supplied; the Option Set has exactly
\* one element with the item's key, also on a repeated commit.
C3_FreeSoloSingle ==
  ( /\ last.op = "commit" /\ ~cfg.multiple /\ cfg.freeSolo /\ cfg.hasS2N
    /\ TypedText(last.payload) # "" )
  => LET item == stringToNewItem(TypedText(last.payload))
     IN  /\ fieldValue = IF cfg.hasTV THEN transformValue(One(item)) ELSE One(item)
         /\ Quiescent => CountKey(getItemKey(item)) = 1

\* the text was committed again while Bound Value already was its item,
\* and the render after the commit is done
C3_Witness ==
  /\ last.op = "commit" /\ ~cfg.multiple /\ cfg.freeSolo /\ cfg.hasS2N /\ ~cfg.hasTV
  /\ TypedText(last.payload) = "x"
  /\ last.prev = One(stringToNewItem("x"))
  /\ fieldValue = One(stringToNewItem("x"))
  /\ Quiescent
  /\ stringToNewItem("x") \in Range(newOptions)

\* field.value as a sequence, a non-array being the empty sequence
PrevSeq(v) == IF v.kind = "arr" THEN v.arr ELSE << >>

\* the last event was a commit of a text or "Add" option by itself in
\* multi-select mode with freeSolo and stringToNewItem
C4_Case ==
  /\ last.op = "commit" /\ cfg.multiple /\ cfg.freeSolo /\ cfg.hasS2N
  /\ last.payload.kind = "one" /\ getInputValue(last.payload.one) # ""

\* C4 as stated: in multi-select with freeSolo and stringToNewItem a commit
\* of the text s when Bound Value is v writes v followed by
\* stringToNewItem(s).
C4_Original ==
  C4_Case =>
    fieldValue = Arr(PrevSeq(last.prev)
                       \o << stringToNewItem(getInputValue(last.payload.one)) >>)

\* C4 amended: the written value is that sequence, or what transformValue
\* returns for it when that hook is supplied.
C4_MultiAppend ==
  C4_Case =>
    LET v == Arr(PrevSeq(last.prev)
                   \o << stringToNewItem(getInputValue(last.payload.one)) >>)
    IN  fieldValue = IF cfg.hasTV THEN transformValue(v) ELSE v

\* a text was committed onto a one-element value: the element stayed first
\* and the new item came last
C4_Witness ==
  /\ last.op = "commit" /\ cfg.multiple /\ cfg.freeSolo /\ cfg.hasS2N
  /\ last.payload.kind = "one" /\ TypedText(last.payload) = "x"
  /\ last.prev = Arr(<< Item("9", "Not In List") >>)
  /\ fieldValue = Arr(<< Item("9", "Not In List"), stringToNewItem("x") >>)

\* the text an element stands for: a raw string's text, an "Add" option's
\* inputValue, empty for an item
TextOf(e) == IF e.tag \in {"str", "add"} THEN e.inp ELSE ""

\* an element with its text replaced by the item made from it
ResolvedElem(e) == IF TextOf(e) # "" THEN stringToNewItem(TextOf(e)) ELSE e

\* the fully resolved value of a commit of payload p over the value prev:
\* without freeSolo there is nothing to resolve
ResolvedValue(p, prev) ==
  IF ~cfg.freeSolo THEN p
  ELSE IF p.kind = "one" /\ TextOf(p.one) # ""
  THEN IF cfg.multiple THEN Arr(PrevSeq(prev) \o << ResolvedElem(p.one) >>)
                       ELSE One(ResolvedElem(p.one))
  ELSE IF p.kind = "arr"
       THEN Arr([ i \in 1..Len(p.arr) |-> ResolvedElem(p.arr[i]) ])
       ELSE p

\* C5: with a transformValue hook every commit of a non-null value calls
\* the hook exactly once, with the fully resolved value (texts and "Add"
\* options replaced by the items made from them), and Bound Value is the
\* hook's result.
C5_TransformOnceOnResolved ==
  (cfg.hasTV /\ last.op = "commit" /\ last.payload.kind # "null") =>
     /\ last.calls = << ResolvedValue(last.payload, last.prev) >>
     /\ fieldValue = transformValue(ResolvedValue(last.payload, last.prev))

\* C6: in single-select with a transformValue hook, a commit of null does
\* not call the hook and Bound Value is null afterwards.
C6_ClearSkipsTransform ==
  (~cfg.multiple /\ cfg.hasTV /\ last.op = "commit" /\ last.payload = NullV) =>
     /\ last.calls = << >>
     /\ fieldValue = NullV

\* an item was selected and then cleared
C6_Witness ==
  /\ ~cfg.multiple /\ cfg.hasTV /\ last.op = "commit" /\ last.payload = NullV
  /\ last.prev.kind = "one" /\ last.prev.one.tag = "item"
  /\ fieldValue = NullV
  /\ Quiescent

CallerReenables == cfg.ap.readOnly = "false" /\ cfg.ap.disabled = "false"

Reconciled(v, newOpts) == newOpts \o newFieldOptions(v, newOpts)

\* the values whose elements, in order, have the keys of v's elements
SameKeys(v) ==
  { w \in ExtValuesFor(cfg) :
      /\ w.kind = v.kind
      /\ Len(fieldValues(w)) = Len(fieldValues(v))
      /\ \A i \in 1..Len(fieldValues(v)) :
            /\ IsString(fieldValues(w)[i]) = IsString(fieldValues(v)[i])
            /\ getItemKey(fieldValues(w)[i]) = getItemKey(fieldValues(v)[i]) }

\* C8: for the value v the component renders (every value that can be
\* written is rendered in some state) and its newOptions, a second run of
\* the resynchronization for v adds nothing to the result of the first, and
\* neither does a run for other objects carrying v's keys.
C8_ReconcileIdempotent ==
  LET once == Reconciled(rValue, newOptions)
  IN  /\ Reconciled(rValue, once) = once
      /\ \A w \in SameKeys(rValue) : Reconciled(w, once) = once

\* the effect is about to add an item, and another object with its key
\* could be written
C8_Witness ==
  /\ effectDue
  /\ newFieldOptions(rValue, newOptions) # << >>
  /\ \E w \in SameKeys(rValue) : w # rValue

\* a value as a sequence: null is empty, a scalar has one element
AsSequence(v) ==
  IF v.kind = "null" THEN << >> ELSE IF v.kind = "one" THEN << v.one >> ELSE v.arr

ConfiguredKeys == { getItemKey(options[i]) : i \in 1..Len(options) }

RECURSIVE AbsentItems(_)
AbsentItems(seq) ==
  IF seq = << >> THEN << >>
  ELSE (IF Head(seq).tag # "str" /\ getItemKey(Head(seq)) \notin ConfiguredKeys
        THEN << Head(seq) >> ELSE << >>) \o AbsentItems(Tail(seq))

\* C9: after initialization DiscoveredOptions is the non-string elements of
\* the initial Bound Value whose key no configured option has, in order,
\* with or without freeSolo; empty for a null value.
C9_SeededAtInit ==
  last.op = "init" => newOptions = AbsentItems(AsSequence(fieldValue))

\* without freeSolo the initial value holds a configured item and one that
\* is not in the list
C9_Witness ==
  /\ last.op = "init" /\ ~cfg.freeSolo /\ cfg.multiple
  /\ fieldValue = Arr(<< Item("1", "Item 1"), Item("9", "Not In List") >>)
  /\ newOptions = << Item("9", "Not In List") >>

\* C10: with freeSolo and no stringToNewItem a commit of a raw text ends in
\* an error, and the text is not written to Bound Value.
C10_MissingConverterFails ==
  ( /\ last.op = "commit" /\ cfg.freeSolo /\ ~cfg.hasS2N
    /\ TypedText(last.payload) # "" )
  => /\ last.error
     /\ fieldValue # last.payload

\* the elements a value holds
ElemsOf(v) == IF v.kind = "one" THEN {v.one} ELSE Range(v.arr)

\* the "Add" options among the elements of a value
Sentinels(v) == { e \in ElemsOf(v) : e.tag = "add" }

\* everything registered: configured, discovered, and queued for discovery
Registered == options \o newOptions \o Flatten(pending)

C12_ViewOnlyForces ==
  ( /\ adapter.vo = "true"
    /\ adapter.ap.readOnly = "unset" /\ adapter.ap.disabled = "unset"
    /\ adapter.ap.disableClearable = "unset"
    /\ adapter.written.variant = "unset" /\ adapter.written.disabled = "unset" )
  => /\ adapter.outAp.readOnly = "true"
     /\ adapter.outAp.disabled = "true"
     /\ adapter.outAp.disableClearable = "true"
     /\ adapter.outTf.variant = "standard"
     /\ adapter.outTf.disabled = "true"

\* a view-only render of a caller who passes a textFieldProps object that
\* sets none of the fields
C12_Witness ==
  /\ adapter.vo = "true"
  /\ adapter.ap = NoCallerProps
  /\ adapter.written.given
  /\ adapter.written.variant = "unset" /\ adapter.written.disabled = "unset"
  /\ adapter.outAp.readOnly = "true" /\ adapter.outAp.disabled = "true"
  /\ adapter.outAp.disableClearable = "true"
  /\ adapter.outTf.variant = "standard"

\* the value of a field in the merged configuration when the caller's
\* value wins over the forced one
CallerOr(callerValue, forced) == IF callerValue # "unset" THEN callerValue ELSE forced

\* C13: with viewOnly = true, readOnly and disabled of the merged
\* autocomplete configuration and disabled and variant of the merged text
\* field configuration are the caller's value where the caller set one and
\* the forced value otherwise.
C13_CallerOverridesForced ==
  adapter.vo = "true" =>
    /\ adapter.outAp.readOnly = CallerOr(adapter.ap.readOnly, "true")
    /\ adapter.outAp.disabled = CallerOr(adapter.ap.disabled, "true")
    /\ adapter.outTf.disabled = CallerOr(adapter.written.disabled, "true")
    /\ adapter.outTf.variant = CallerOr(adapter.written.variant, "standard")

\* C14: with viewOnly = true, disableClearable of the merged autocomplete
\* configuration is true whatever the caller passes for it.
C14_ClearableForcedOff ==
  adapter.vo = "true" => adapter.outAp.disableClearable = "true"

\* a field the adapter leaves alone: the caller's value, or none that
\* view-only would force
PassedThrough(out, callerValue, forced) ==
  IF callerValue # "unset" THEN out = callerValue ELSE out # forced

\* C15: with viewOnly false or absent every field the caller set has the
\* caller's value in the merged configuration, and readOnly, disabled,
\* disableClearable and variant do not have the view-only value when the
\* caller did not set them.
C15_NothingForcedOtherwise ==
  adapter.vo # "true" =>
    /\ PassedThrough(adapter.outAp.readOnly, adapter.ap.readOnly, "true")
    /\ PassedThrough(adapter.outAp.disabled, adapter.ap.disabled, "true")
    /\ PassedThrough(adapter.outAp.disableClearable, adapter.ap.disableClearable, "true")
    /\ PassedThrough(adapter.outTf.disabled, adapter.written.disabled, "true")
    /\ PassedThrough(adapter.outTf.variant, adapter.written.variant, "standard")

\* C16: a render leaves the caller's textFieldProps object as the caller
\* wrote it, and what it hands to the widget is what the adapter makes of
\* the caller's props as written, the current viewOnly and disableUnderline;
\* with viewOnly not true that is the caller's props with no forced field
\* and no view-only style.
C16_AdapterPure ==
  /\ adapter.tf = adapter.written
  /\ adapter.outAp = autocompleteAdjustedProps(adapter.vo, adapter.ap)
  /\ adapter.outTf = getTextElementDisplayProps(adapter.written, adapter.vo, adapter.du)
  /\ adapter.vo # "true" => adapter.outTf = [ adapter.written EXCEPT !.given = TRUE ]

\* ------------------------------------------------ claims on renderValue
\* C17: for an array value renderValue makes one chip per element, in the
\* value's order, labelled with the element itself when it is a raw string
\* and with getItemLabel(element) otherwise, whatever getItemProps and
\* getChipProps return.
C17_OneChipPerElement ==
  rValue.kind = "arr" =>
    \A ip \in ItemProps, cp \in ChipPropsResults :
      LET chips == renderValue(rValue, ip, cp).chips
      IN  /\ Len(chips) = Len(rValue.arr)
          /\ \A i \in 1..Len(chips) :
               chips[i].label = IF rValue.arr[i].tag = "str"
                                THEN rValue.arr[i].inp
                                ELSE getItemLabel(rValue.arr[i])

\* a multi-select value of a raw string followed by an item is rendered
C17_Witness ==
  /\ cfg.multiple
  /\ rValue = Arr(<< Str("x"), Item("9", "Not In List") >>)
  /\ ~effectDue
  /\ \A ip \in ItemProps, cp \in ChipPropsResults :
       LET chips == renderValue(rValue, ip, cp).chips
       IN  Len(chips) = 2 /\ chips[1].label = "x" /\ chips[2].label = "Not In List"

\* C18: for a null value, in either selection mode, renderValue returns the
\* empty string and does not call getItemLabel; for a single value it
\* returns the raw string of a string and getItemLabel(value) otherwise.
C18_RenderValueNullSafe ==
  \A ip \in ItemProps, cp \in ChipPropsResults :
    LET r == renderValue(rValue, ip, cp)
    IN  /\ rValue.kind = "null" => r.text = "" /\ r.labelled = << >> /\ r.chips = << >>
        /\ (rValue.kind = "one" /\ rValue.one.tag = "str") => r.text = rValue.one.inp
        /\ (rValue.kind = "one" /\ rValue.one.tag # "str") =>
              r.text = getItemLabel(rValue.one)

\* a multi-select field was cleared from outside to null and rendered
C18_Witness ==
  /\ cfg.multiple
  /\ last.op = "setValue" /\ last.payload = NullV
  /\ rValue = NullV /\ ~effectDue
  /\ \A ip \in ItemProps, cp \in ChipPropsResults :
       renderValue(rValue, ip, cp).text = ""

\* C19: in view-only mode no chip that renderValue makes has an onDelete
\* handler, whatever getItemProps and getChipProps return.
C19_NoRemovalInViewOnly ==
  (cfg.viewOnly = "true" /\ rValue.kind = "arr") =>
    \A ip \in ItemProps, cp \in ChipPropsResults :
      LET chips == renderValue(rValue, ip, cp).chips
      IN  \A i \in 1..Len(chips) : ~chips[i].onDelete

\* ----------------------------------------------- claims on useFormError
\* the entry of the errors object at a dot-separated path
EntryAtPath(errors, name) ==
  CASE name = "testField"  -> errors.testField
    [] name = "user"       -> IF errors.user.present THEN TypeOnly ELSE NoEntry
    [] name = "user.email" -> IF errors.user.present THEN errors.user.email ELSE NoEntry
    [] OTHER               -> NoEntry

\* C20: useFormError(errors, name) returns error = true exactly when errors
\* has an entry at the dot-separated path name, and helperText is that
\* entry's message, or the empty string when there is no entry or no
\* message.
C20_FormErrorAtPath ==
  LET entry == EntryAtPath(formError.errors, formError.name)
  IN  /\ formError.error = entry.present
      /\ formError.helperText = IF entry.present /\ entry.hasMessage
                                THEN entry.message ELSE ""

\* ------------------------------------------------ claims on the commit
\* the last event was a commit of an array in multi-select mode with
\* freeSolo and stringToNewItem
C23_Case ==
  /\ last.op = "commit" /\ cfg.multiple /\ cfg.freeSolo /\ cfg.hasS2N
  /\ last.payload.kind = "arr"

\* the payload with every non-empty string and every "Add" option replaced
\* by the item made from its text
C23_Resolved == [ i \in 1..Len(last.payload.arr) |-> ResolvedElem(last.payload.arr[i]) ]

\* the resolved elements that are items with a key no option had
C23_New ==
  SelectSeq(C23_Resolved,
            LAMBDA e : e.tag # "str" /\ ~KeyIn(e.key, options \o last.opts))

IsPrefix(a, b) == Len(a) <= Len(b) /\ SubSeq(b, 1, Len(a)) = a

\* C23 as stated: the array written is the payload resolved element by
\* element, and the resolved items with a new key are appended to
\* DiscoveredOptions.
C23_Original ==
  C23_Case =>
    /\ ~last.error
    /\ fieldValue = Arr(C23_Resolved)
    /\ last.adds = C23_New
    /\ IsPrefix(last.opts \o C23_New, newOptions \o Flatten(pending))

\* C23 amended: the resolved array is written, or what transformValue
\* returns for it when that hook is supplied.
C23_ArrayResolved ==
  C23_Case =>
    /\ ~last.error
    /\ fieldValue = IF cfg.hasTV THEN transformValue(Arr(C23_Resolved))
                                 ELSE Arr(C23_Resolved)
    /\ last.adds = C23_New
    /\ IsPrefix(last.opts \o C23_New, newOptions \o Flatten(pending))

\* an option was picked onto a value holding a raw string: the string
\* became its item at the same position, the option stayed, and the item is
\* among the options after the render
C23_Witness ==
  /\ C23_Case
  /\ last.payload = Arr(<< Str("x"), Item("1", "Item 1") >>)
  /\ fieldValue = Arr(<< stringToNewItem("x"), Item("1", "Item 1") >>)
  /\ Quiescent
  /\ newOptions = last.opts \o << stringToNewItem("x") >>

\* the resolved value of the last commit, passed through transformValue
\* when the hook is supplied and the value is not null
C24_Written ==
  LET v == ResolvedValue(last.payload, last.prev)
  IN IF cfg.hasTV /\ v.kind # "null" THEN transformValue(v) ELSE v

\* C24: a commit hands exactly one value to field.onChange, the resolved
\* (and transformed) value; stated for the configurations in which freeSolo
\* comes with stringToNewItem.
C24_SingleWrite ==
  (last.op = "commit" /\ (cfg.freeSolo => cfg.hasS2N)) =>
     last.writes = << C24_Written >>

\* the last event was a commit of a text or of an "Add" option with
\* freeSolo and stringToNewItem
C25_Case ==
  /\ last.op = "commit" /\ cfg.freeSolo /\ cfg.hasS2N
  /\ last.payload.kind = "one" /\ TextOf(last.payload.one) # ""

\* the key of the item made from the text of the last commit
C25_Key == getItemKey(stringToNewItem(TextOf(last.payload.one)))

C26_AppendOnly ==
  [][ /\ IsPrefix(newOptions, newOptions')
      /\ SubSeq(OptionSet', 1, Len(options)) = options
      /\ SubSeq(OptionSet', Len(options) + 1, Len(OptionSet')) = newOptions' ]_vars

\* a commit found one discovered option and its render added a second one
\* behind it
C26_Witness ==
  /\ last.op = "commit"
  /\ Len(last.opts) = 1 /\ Len(newOptions) = 2
  /\ IsPrefix(last.opts, newOptions)
  /\ OptionSet = options \o newOptions

\* the options and queued insertions that carry key k
CountRegistered(k) ==
  Cardinality({ i \in 1..Len(Registered) : getItemKey(Registered[i]) = k })

\* C27: when a text or its "Add" option is committed by a handler that runs
\* before the previous event is rendered, the options and the insertions
\* queued hold at most one element with the key of its item, and they keep
\* every insertion that was queued before.
C27_BatchedDedup ==
  (last.op = "batched" /\ last.payload.kind = "one" /\ TextOf(last.payload.one) # "") =>
     /\ CountRegistered(C25_Key) <= 1
     /\ IsPrefix(last.opts, newOptions \o Flatten(pending))

\* the part of C27 that holds: the second handler's insertions are queued
\* behind those of the first, none of which is lost
C27_NoInsertionLost ==
  last.op = "batched" =>
     newOptions \o Flatten(pending) = last.opts \o last.adds \o last.synced

\* C28: whenever renders or effects are due they come to an end, in a state
\* in which every update is rendered and the effect has nothing left to
\* insert; and between two changes of Bound Value the effect inserts in at
\* most one of its runs.
C28_ResyncTerminates ==
  /\ ~Quiescent ~> Quiescent
  /\ [](last.steps <= 1)

\* a value whose two elements share a key no option had was written: one run
\* of the effect inserted both, its re-run nothing, and all is rendered
C28_Witness ==
  /\ last.op = "setValue" /\ last.steps = 1
  /\ fieldValue = Arr(<< Item("9", "Not In List"), Item("9", "Renamed") >>)
  /\ last.synced = fieldValue.arr
  /\ Quiescent
  /\ newFieldOptions(rValue, newOptions) = << >>

\* C29: when the caller passes autocompleteProps.onChange, a commit runs the
\* caller's handler once and nothing of the component's: field.onChange
\* receives the payload from the widget alone, unresolved, transformValue
\* is not called and nothing is queued for DiscoveredOptions.
C29_CallerHandlerReplaces ==
  (cfg.callerOnChange /\ last.op = "commit") =>
     /\ last.caller = 1
     /\ last.writes = << last.payload >>
     /\ last.calls = << >>
     /\ last.adds = << >>
     /\ fieldValue = last.payload
     /\ pending = << >> => newOptions = last.opts \o last.synced

\* a text was committed in an instance with freeSolo, stringToNewItem and
\* transformValue whose caller passes onChange: Bound Value is the text
C29_Witness ==
  /\ cfg.callerOnChange /\ last.op = "commit"
  /\ cfg.freeSolo /\ cfg.hasS2N /\ cfg.hasTV
  /\ last.payload = One(Str("x"))
  /\ fieldValue = One(Str("x"))
  /\ Quiescent

\* what the handler does with the payload of the last commit when the
\* reason is 'createOption'
C30_AsCreateOption ==
  widgetOnChange(cfg, last.payload, "createOption", last.prev, last.opts)

\* C30: whatever the reason of a commit, the values handed to
\* field.onChange, the value Bound Value ends with and the items queued for
\* DiscoveredOptions are those of the same commit with the reason
\* 'createOption': commits that differ in the reason alone have one outcome.
C30_ReasonIrrelevant ==
  last.op = "commit" =>
     /\ last.writes = << last.payload >> \o C30_AsCreateOption.writes
     /\ fieldValue = last.writes[Len(last.writes)]
     /\ last.adds = Flatten(C30_AsCreateOption.adds)
     /\ IsPrefix(last.opts \o last.adds, newOptions \o Flatten(pending))

\* a new text was committed with the reason 'clear': its item was written
\* and queued all the same
C30_Witness ==
  /\ last.op = "commit" /\ last.reason = "clear"
  /\ ~cfg.multiple /\ cfg.freeSolo /\ cfg.hasS2N /\ cfg.hasTV
  /\ last.payload = One(Str("x"))
  /\ fieldValue = transformValue(One(stringToNewItem("x")))
  /\ last.adds = << stringToNewItem("x") >>

\* ------------------------------------------------- claims on useOnMount
\* C21: every instance that has mounted has called its callback exactly
\* once, whatever re-renders, effect cleanups and re-runs and unmounts
\* followed, and an instance that has not mounted has not called it.
C21_OncePerInstance ==
  \A i \in 1..MaxInstances :
    mounts[i].calls = IF mounts[i].phase = "new" THEN 0 ELSE 1

\* one instance was re-rendered and had its effect cleaned up and run
\* again, and a second instance has mounted too
C21_Witness ==
  /\ mounts[1].phase = "mounted" /\ mounts[1].renders > 1 /\ mounts[1].runs > 1
  /\ mounts[1].calls = 1
  /\ mounts[2].phase = "mounted" /\ mounts[2].calls = 1

\* ---------------------------------------------- claims on filterOptions
\* the options of the call whose key or label contains the typed text,
\* whatever the case of either
Containing ==
  LET q == toLowerCase(filterCall.input)
      has(e) == \/ includes(toLowerCase(e.key), q)
                \/ includes(toLowerCase(e.name), q)
  IN SelectSeq(filterCall.options, has)

\* the positions of the result holding an "Add" option
AddPositions == { i \in 1..Len(filterCall.result) : filterCall.result[i].tag = "add" }

\* no option among those containing the typed text is labelled with it
NoLabelIsTyped ==
  \A i \in 1..Len(Containing) :
    toLowerCase(Containing[i].name) # toLowerCase(filterCall.input)

\* C22: for a non-empty typed text filterOptions returns the options whose
\* key or label contains it, case-insensitively and in their order,
\* preceded by one "Add" option carrying the text exactly when freeSolo and
\* stringToNewItem are set and no such option is labelled with the text;
\* for an empty text it returns the options as they are.
C22_FilterOptions ==
  filterCall.called =>
  IF filterCall.input = ""
  THEN filterCall.result = filterCall.options
  ELSE LET r == filterCall.result
           wanted == filterCall.freeSolo /\ filterCall.hasS2N /\ NoLabelIsTyped
       IN /\ AddPositions = IF wanted THEN {1} ELSE {}
          /\ wanted => r[1] = AddOption(filterCall.input)
          /\ (IF wanted THEN Tail(r) ELSE r) = Containing

\* "A" is typed over options of which one label contains it only in another
\* case: the "Add" option comes first, the containing options after it
C22_Witness ==
  /\ filterCall.called
  /\ filterCall.freeSolo /\ filterCall.hasS2N
  /\ filterCall.input = "A"
  /\ filterCall.options = << Item("ab", "c"), Item("1", "ab") >>
  /\ filterCall.result = << AddOption("A"), Item("ab", "c"), Item("1", "ab") >>

\* "ab" is typed over an option labelled "AB": no "Add" option
C22_WitnessExact ==
  /\ filterCall.called
  /\ filterCall.freeSolo /\ filterCall.hasS2N
  /\ filterCall.input = "ab"
  /\ filterCall.result = << Item("2", "AB") >>

====
